---- MODULE Spec2Model ----
(***************************************************************************)
(* pcp: parallel file copy.  Three revisions of the program are modelled:  *)
(*   "pcp.go"   - environment configured, memory-mapped copy (mcopy)       *)
(*   "part_000" - flag configured, copy_file_range copy (fcopy)            *)
(*   "part_001" - flag configured, memory-mapped copy (mcopy)              *)
(* A file's content is kept by provenance: a sequence of extents, each     *)
(* saying where its bytes come from (the source at some offset, the        *)
(* destination's earlier content, or a hole of zeros).                     *)
(***************************************************************************)
EXTENDS Integers, Sequences, FiniteSets, TLC

\* ---------------------------------------------------------------- bounds
MaxThreads == 3
HugeThreads == 300
MaxCPU == 1
MaxFaults == 2

\* ------------------------------------------------------- program constants
PageSize == 4096
SmallFilePages == 256

Versions == {"pcp.go", "part_000", "part_001"}
UsesMmap(v) == v # "part_000"

\* Mutant: the threshold counts kilobytes instead of pages.
ThresholdInKilobytes == SmallFilePages * 1024

\* 256*os.Getpagesize(): files below it are copied by one worker.
Threshold == SmallFilePages * PageSize

\* Source sizes: empty, tiny, the 1,000,000 byte scenario, and sizes around
\* the small-file threshold.
Sizes ==
  {0, 1, 1000000, Threshold - 1, Threshold, Threshold + PageSize + 1}

\* Permission bits as sets of bit names.
Mode644 == {"ur", "uw", "gr", "or"}
Mode600 == {"ur", "uw"}
Mode666 == {"ur", "uw", "gr", "gw", "or", "ow"}
SrcModes == {Mode666}
Umasks == {{}, {"gw", "ow"}}

\* ------------------------------------------------------- file content
Min(a, b) == IF a < b THEN a ELSE b
Max(a, b) == IF a > b THEN a ELSE b

Seg(lo, hi, kind, off) == [lo |-> lo, hi |-> hi, kind |-> kind, off |-> off]

SegsLen(segs) == IF segs = <<>> THEN 0 ELSE segs[Len(segs)].hi

\* The part of an extent that lies in [a, b).
Clip(s, a, b) ==
  LET lo == Max(s.lo, a)
      hi == Min(s.hi, b)
  IN Seg(lo, hi, s.kind, IF s.kind = "zero" THEN 0 ELSE s.off + (lo - s.lo))

ClipSeq(segs, a, b) ==
  SelectSeq([k \in 1..Len(segs) |-> Clip(segs[k], a, b)],
            LAMBDA s: s.lo < s.hi)

Joins(a, b) ==
  /\ a.hi = b.lo
  /\ a.kind = b.kind
  /\ (a.kind = "zero" \/ b.off - a.off = b.lo - a.lo)

RECURSIVE Merge(_)
Merge(segs) ==
  IF Len(segs) < 2 THEN segs
  ELSE IF Joins(segs[1], segs[2])
       THEN Merge(<<Seg(segs[1].lo, segs[2].hi, segs[1].kind, segs[1].off)>>
                  \o SubSeq(segs, 3, Len(segs)))
       ELSE <<segs[1]>> \o Merge(Tail(segs))

\* Mutant: the destination is not sized to the source.
NoTruncate(segs, n) == segs

\* ftruncate(2): cut the file to n bytes, or extend it with a hole of zeros.
TruncateSegs(segs, n) ==
  IF n <= SegsLen(segs) THEN ClipSeq(segs, 0, n)
  ELSE Merge(segs \o <<Seg(SegsLen(segs), n, "zero", 0)>>)

\* Store source bytes [off, off + (hi - lo)) at destination offsets [lo, hi).
WriteSegs(segs, lo, hi, off) ==
  IF lo >= hi THEN segs
  ELSE LET len == SegsLen(segs)
           gap == IF lo > len THEN <<Seg(len, lo, "zero", 0)>> ELSE <<>>
       IN Merge(ClipSeq(segs, 0, lo) \o gap \o <<Seg(lo, hi, "src", off)>>
                \o ClipSeq(segs, hi, Max(len, hi)))

\* The destination holds exactly the source's n bytes.
IsCopyOf(segs, n) ==
  IF n = 0 THEN segs = <<>> ELSE segs = <<Seg(0, n, "src", 0)>>

\* ------------------------------------------------------- integer helpers
\* Go integer division truncates toward zero.
GoDiv(a, b) ==
  IF (a >= 0) = (b > 0) THEN (IF a >= 0 THEN a ELSE -a) \div (IF b > 0 THEN b ELSE -b)
  ELSE -((IF a >= 0 THEN a ELSE -a) \div (IF b > 0 THEN b ELSE -b))

\* Mutant: sizes are not rounded down to a page boundary.
AlignNone(size) == size

\* Align to OS page boundaries
align(size) == GoDiv(size, PageSize) * PageSize

\* ------------------------------------------------------- inputs
\* The text given as PCP_THREADS or -t: unset, not a number, or an integer
\* (small ones, the 4 of the 1,000,000 byte scenario, and a huge one).
ThreadInput(kind, val) == [kind |-> kind, val |-> val]
ThreadInputs ==
  {ThreadInput("unset", 0), ThreadInput("bad", 0)}
  \cup {ThreadInput("int", v) : v \in (-1..MaxThreads) \cup {4, HugeThreads}}

DstState(exists, mode, segs) == [exists |-> exists, mode |-> mode, segs |-> segs]
DstLens == {5, 2 * Threshold}
DstStates ==
  {DstState(FALSE, {}, <<>>)}
  \cup {DstState(TRUE, Mode600, <<Seg(0, n, "old", 0)>>) : n \in DstLens}

\* ------------------------------------------------------- state
VARIABLES
  version,     \* which revision of the program runs
  pc,          \* position of the main goroutine
  tInput,      \* the thread count text the caller gave
  threads,     \* global: threads
  fsync,       \* global: fsync
  srcKind,     \* "regular", "directory" or "missing"
  srcSize,     \* stat.Size() of the source
  srcMode,     \* stat.Mode().Perm() of the source
  dst,         \* the destination file: exists, mode, content
  dst0,        \* the destination file before the run
  dstOpen,     \* "no", "open" or "closed": the destination handle
  workers0,    \* threads when pcopy was called
  chunk, startOffset, endOffset, i,   \* pcopy's locals
  wg,          \* the WaitGroup counter
  tasks,       \* the goroutines started by pcopy, in dispatch order
  faults,      \* abnormal copy_file_range results so far
  ret,         \* what pcopy returned: "none", "nil" or "err"
  errKind,     \* which error ended the run
  exitCode     \* -1 while the process runs

vars == <<version, pc, tInput, threads, fsync, srcKind, srcSize, srcMode, dst,
          dst0, dstOpen, workers0, chunk, startOffset, endOffset, i, wg, tasks,
          faults, ret, errKind, exitCode>>

fileVars == <<srcKind, srcSize, srcMode, dst0, version>>
planVars == <<chunk, startOffset, endOffset, i>>

Running == exitCode = -1

Init ==
  /\ version \in Versions
  /\ pc = "main"
  /\ tInput = ThreadInput("unset", 0)
  /\ threads = 0
  /\ fsync = FALSE
  /\ srcKind \in {"regular", "directory", "missing"}
  /\ srcSize \in (IF srcKind = "regular" THEN Sizes ELSE {0})
  /\ srcMode \in (IF srcKind = "regular" THEN SrcModes ELSE {Mode644})
  /\ dst \in DstStates
  /\ dst0 = dst
  /\ dstOpen = "no"
  /\ workers0 = 0
  /\ chunk = 0 /\ startOffset = 0 /\ endOffset = 0 /\ i = 0
  /\ wg = 0
  /\ tasks = <<>>
  /\ faults = 0
  /\ ret = "none"
  /\ errKind = "none"
  /\ exitCode = -1

\* Mutant: the process dies of the signal, as the Go runtime does on a fault
\* that is not turned into a panic and recovered (status 2).
FatalCrash(kind) ==
  /\ exitCode' = 2
  /\ errKind' = kind
  /\ pc' = "exited"

\* log.Fatalln: the process ends with status 1, whatever the goroutines do.
Fatal(kind) ==
  /\ exitCode' = 1
  /\ errKind' = kind
  /\ pc' = "exited"

\* pcopy returns err to main, which ends the process with log.Fatalln.
ReturnErr(kind) ==
  /\ ret' = "err"
  /\ exitCode' = 1
  /\ errKind' = kind
  /\ pc' = "exited"

\* pcopy returns nil to main, which falls off its end: status 0.
ReturnNil ==
  /\ ret' = "nil"
  /\ exitCode' = 0
  /\ errKind' = "none"
  /\ pc' = "exited"

\* ------------------------------------------------------- main
\* PCP_THREADS: Atoi, 0 on error, then NumCPU when 0.
EnvThreads(in, ncpu) ==
  LET parsed == IF in.kind = "int" THEN in.val ELSE 0
  IN IF parsed = 0 THEN ncpu ELSE parsed

\* -t: an int flag defaulting to 0, then NumCPU when <= 0.
FlagThreads(in, ncpu) ==
  LET parsed == IF in.kind = "int" THEN in.val ELSE 0
  IN IF parsed <= 0 THEN ncpu ELSE parsed

ResolveThreads(v, in, ncpu) ==
  IF v = "pcp.go" THEN EnvThreads(in, ncpu) ELSE FlagThreads(in, ncpu)

\* Options of the run: part_000 has no sync option.
SyncChoices(v) == IF v = "part_000" THEN {FALSE} ELSE BOOLEAN

\* The thread counts a revision is run with.
InputsOf(v) ==
  IF UsesMmap(v) THEN ThreadInputs
  ELSE {in \in ThreadInputs : in.val # HugeThreads}

Main ==
  /\ pc = "main"
  /\ Running
  /\ \E in \in InputsOf(version), ncpu \in 1..MaxCPU, sync \in SyncChoices(version),
        overwrite \in BOOLEAN :
       /\ tInput' = in
       /\ fsync' = sync
       /\ IF version # "pcp.go" /\ in.kind = "bad"
          THEN \* flag.Parse rejects the value and exits with status 2
               /\ exitCode' = 2 /\ errKind' = "usage" /\ pc' = "exited"
               /\ UNCHANGED <<threads, workers0>>
          ELSE /\ threads' = ResolveThreads(version, in, ncpu)
               /\ IF dst.exists /\ ~overwrite
                  THEN Fatal("not overwritten") /\ UNCHANGED workers0
                  ELSE /\ pc' = "open_src"
                       /\ workers0' = threads'
                       /\ UNCHANGED <<exitCode, errKind>>
  /\ UNCHANGED <<fileVars, dst, dstOpen, planVars, wg, tasks, faults, ret>>

\* ------------------------------------------------------- pcopy
\* Mutant: the kind of the source is not checked.
AnyKind(kind) == TRUE

\* stat.Mode().IsRegular()
IsRegular(kind) == kind = "regular"

\* Open and stat the source.
OpenSource ==
  /\ pc = "open_src"
  /\ Running
  /\ \E ok \in BOOLEAN :
       IF srcKind = "missing" \/ ~ok THEN ReturnErr("open source")
       ELSE IF ~IsRegular(srcKind) THEN ReturnErr("pcp only works on regular files")
       ELSE /\ pc' = "open_dst"
            /\ UNCHANGED <<ret, exitCode, errKind>>
  /\ UNCHANGED <<fileVars, tInput, threads, fsync, dst, dstOpen, workers0,
                 planVars, wg, tasks, faults>>

\* os.OpenFile(destination, O_RDWR|O_CREATE, srcMode): an absent file is created
\* with srcMode less the umask; an existing one is opened as it is.
OpenFileCreate(d, mode, umask) ==
  IF d.exists THEN d ELSE DstState(TRUE, mode \ umask, <<>>)

OpenDestination ==
  /\ pc = "open_dst"
  /\ Running
  /\ \E ok \in BOOLEAN, umask \in Umasks, closeOk \in BOOLEAN :
       IF ~ok THEN ReturnErr("open destination") /\ UNCHANGED <<dst, dstOpen>>
       ELSE /\ dst' = OpenFileCreate(dst, srcMode, umask)
            /\ IF srcSize = 0
               THEN /\ dstOpen' = "closed"
                    /\ IF closeOk THEN ReturnNil ELSE ReturnErr("close")
               ELSE /\ dstOpen' = "open"
                    /\ pc' = "truncate"
                    /\ UNCHANGED <<ret, exitCode, errKind>>
  /\ UNCHANGED <<fileVars, tInput, threads, fsync, workers0, planVars, wg,
                 tasks, faults>>

TruncateDestination ==
  /\ pc = "truncate"
  /\ Running
  /\ \E ok \in BOOLEAN :
       IF ok THEN /\ dst' = [dst EXCEPT !.segs = TruncateSegs(@, srcSize)]
                  /\ pc' = "plan"
                  /\ UNCHANGED <<dstOpen, ret, exitCode, errKind>>
       ELSE /\ dstOpen' = "closed"
            /\ ReturnErr("truncate")
            /\ UNCHANGED dst
  /\ UNCHANGED <<fileVars, tInput, threads, fsync, workers0, planVars, wg,
                 tasks, faults>>

\* Mutant: small files keep the requested worker count.
AlwaysRequested(size, n) == n

\* Don't run parallel jobs for small files
EffectiveThreads(size, n) == IF size < Threshold THEN 1 ELSE n

Plan ==
  /\ pc = "plan"
  /\ Running
  /\ threads' = EffectiveThreads(srcSize, threads)
  /\ chunk' = align(GoDiv(srcSize, threads'))
  /\ startOffset' = 0
  /\ endOffset' = chunk'
  /\ i' = 0
  /\ pc' = "dispatch"
  /\ UNCHANGED <<fileVars, tInput, fsync, dst, dstOpen, workers0, wg, tasks,
                 faults, ret, errKind, exitCode>>

\* Mutant: the last chunk is not stretched to the end of the file.
ChunkEndNoLast(k, n, end, size) == end

\* The end of the range given to the goroutine started in iteration k of n.
ChunkEnd(k, n, end, size) == IF k = n - 1 THEN size ELSE end

NewTask(start, end) ==
  [start |-> start, end |-> end,
   pc |-> IF UsesMmap(version) THEN "map_s" ELSE "loop",
   s |-> "none", d |-> "none", synced |-> FALSE,
   off |-> start, written |-> 0, remain |-> end - start, err |-> FALSE,
   stored |-> 0, parts |-> 0]

Dispatch ==
  /\ pc = "dispatch"
  /\ Running
  /\ i < threads
  /\ wg' = wg + 1
  /\ tasks' = Append(tasks, NewTask(startOffset, ChunkEnd(i, threads, endOffset, srcSize)))
  /\ startOffset' = startOffset + chunk
  /\ endOffset' = ChunkEnd(i, threads, endOffset, srcSize) + chunk
  /\ i' = i + 1
  /\ UNCHANGED <<fileVars, pc, tInput, threads, fsync, dst, dstOpen, workers0,
                 chunk, faults, ret, errKind, exitCode>>

\* Mutant: the destination is closed without waiting for the goroutines.
CloseWithoutWait ==
  /\ pc = "dispatch"
  /\ Running
  /\ ~(i < threads)
  /\ dstOpen' = "closed"
  /\ \E ok \in BOOLEAN : IF ok THEN ReturnNil ELSE ReturnErr("close")
  /\ UNCHANGED <<fileVars, tInput, threads, fsync, dst, workers0, planVars, wg,
                 tasks, faults>>

\* wg.Wait() returns once the counter is zero; then the destination is closed.
WaitAndClose ==
  /\ pc = "dispatch"
  /\ Running
  /\ ~(i < threads)
  /\ wg = 0
  /\ dstOpen' = "closed"
  /\ \E ok \in BOOLEAN : IF ok THEN ReturnNil ELSE ReturnErr("close")
  /\ UNCHANGED <<fileVars, tInput, threads, fsync, dst, workers0, planVars, wg,
                 tasks, faults>>

\* ------------------------------------------------------- mcopy
mainVars == <<fileVars, tInput, threads, fsync, dstOpen, workers0, planVars>>

TaskIds == 1..Len(tasks)

\* Mutant: goroutines go on after log.Fatalln.
LiveAfterExit(t) == t \in TaskIds

\* A goroutine runs only while the process does.
Live(t) == Running /\ t \in TaskIds

\* Goroutines in the same state are interchangeable: of a run of them in
\* dispatch order the first stands for all.
Schedulable == {t \in TaskIds : t = 1 \/ tasks[t] # tasks[t - 1]}

\* unix.Mmap refuses a length that is not positive and an offset that is not
\* a multiple of the page size (EINVAL).
MmapValid(start, end) == end - start > 0 /\ start % PageSize = 0

MapResults == {"ok", "mmap", "madvise"}

\* Mmap and Madvise of the source view.
MapSource(t) ==
  /\ Live(t)
  /\ tasks[t].pc = "map_s"
  /\ \E r \in MapResults :
       IF r = "mmap" \/ ~MmapValid(tasks[t].start, tasks[t].end)
       THEN Fatal("mmap source") /\ tasks' = [tasks EXCEPT ![t].pc = "failed"]
       ELSE IF r = "madvise"
       THEN /\ Fatal("madvise source")
            /\ tasks' = [tasks EXCEPT ![t].s = "mapped", ![t].pc = "failed"]
       ELSE /\ tasks' = [tasks EXCEPT ![t].s = "mapped", ![t].pc = "map_d"]
            /\ UNCHANGED <<pc, exitCode, errKind>>
  /\ UNCHANGED <<mainVars, dst, wg, faults, ret>>

\* Only pcp.go advises the kernel about the destination view.
DestResults(v) == IF v = "pcp.go" THEN MapResults ELSE {"ok", "mmap"}

\* Mmap (and in pcp.go Madvise) of the destination view.
MapDest(t) ==
  /\ Live(t)
  /\ tasks[t].pc = "map_d"
  /\ \E r \in DestResults(version) :
       IF r = "mmap" \/ ~MmapValid(tasks[t].start, tasks[t].end)
       THEN Fatal("mmap destination") /\ tasks' = [tasks EXCEPT ![t].pc = "failed"]
       ELSE IF r = "madvise"
       THEN /\ Fatal("madvise destination")
            /\ tasks' = [tasks EXCEPT ![t].d = "mapped", ![t].pc = "failed"]
       ELSE /\ tasks' = [tasks EXCEPT ![t].d = "mapped", ![t].pc = "copy"]
            /\ UNCHANGED <<pc, exitCode, errKind>>
  /\ UNCHANGED <<mainVars, dst, wg, faults, ret>>

\* How far a copy that faults gets before the fault.
FaultPoints(len) == {k \in {0, PageSize} : k < len}

\* Mutant: every task stores its bytes from the start of the destination.
DestOffsetZero(off) == 0

\* The destination offset from which a task stores the bytes it read at off.
DestOffset(off) == off

\* Mutant: the copied range is never synced.
NeverSync(sync) == "unmap"

\* After the copy: if fsync, unix.Msync comes before unix.Munmap(d).
AfterCopy(sync) == IF sync THEN "sync" ELSE "unmap"

\* copy(d, s): the views have the same length, so all of it is copied, unless
\* an access faults; the fault is recovered and ends in log.Fatalln.  A view
\* that reaches past the end of its file faults there.
CopyViews(t) ==
  /\ Live(t)
  /\ tasks[t].pc = "copy"
  /\ LET start == tasks[t].start
         end == tasks[t].end
         limit == Min(srcSize, SegsLen(dst.segs))
     IN \E fault \in BOOLEAN :
          IF fault \/ end > limit
          THEN \E k \in (IF end > limit /\ ~fault
                         THEN {Max(0, limit - start)} ELSE FaultPoints(end - start)) :
                 /\ dst' = [dst EXCEPT !.segs =
                              WriteSegs(@, DestOffset(start), DestOffset(start) + k, start)]
                 /\ Fatal("fault")
                 /\ tasks' = [tasks EXCEPT ![t].stored = k, ![t].pc = "failed"]
          ELSE /\ dst' = [dst EXCEPT !.segs =
                            WriteSegs(@, DestOffset(start),
                                      DestOffset(start) + (end - start), start)]
               /\ tasks' = [tasks EXCEPT ![t].written = end - start,
                                         ![t].remain = 0,
                                         ![t].stored = end - start,
                                         ![t].pc = AfterCopy(fsync)]
               /\ UNCHANGED <<pc, exitCode, errKind>>
  /\ UNCHANGED <<mainVars, wg, faults, ret>>

\* unix.Msync when syncing is on; on error the view is released, then Fatalln.
SyncView(t) ==
  /\ Live(t)
  /\ tasks[t].pc = "sync"
  /\ \E ok \in BOOLEAN :
       IF ok THEN /\ tasks' = [tasks EXCEPT ![t].synced = TRUE, ![t].pc = "unmap"]
                  /\ UNCHANGED <<pc, exitCode, errKind>>
       ELSE /\ tasks' = [tasks EXCEPT ![t].d = "released", ![t].pc = "failed"]
            /\ Fatal("msync")
  /\ UNCHANGED <<mainVars, dst, wg, faults, ret>>

\* unix.Munmap(d), then the deferred calls: Munmap(s) and wg.Done().
UnmapAndReturn(t) ==
  /\ Live(t)
  /\ tasks[t].pc = "unmap"
  /\ \E ok \in BOOLEAN :
       IF ok THEN /\ tasks' = [tasks EXCEPT ![t].d = "released", ![t].s = "released",
                                            ![t].pc = "done"]
                  /\ wg' = wg - 1
                  /\ UNCHANGED <<pc, exitCode, errKind>>
       ELSE /\ Fatal("munmap")
            /\ tasks' = [tasks EXCEPT ![t].pc = "failed"]
            /\ UNCHANGED wg
  /\ UNCHANGED <<mainVars, dst, faults, ret>>

\* ------------------------------------------------------- fcopy
\* What one unix.CopyFileRange call may return for a request of req bytes:
\* all of it, a part, nothing (end of the source), EINTR, or another error.
\* On an error the call returns n = -1.
RangeResults(req) ==
  {[n |-> req, err |-> "nil", odd |-> FALSE]}
  \cup {[n |-> k, err |-> "nil", odd |-> TRUE] : k \in {j \in {0, PageSize} : j < req}}
  \cup {[n |-> -1, err |-> e, odd |-> TRUE] : e \in {"EINTR", "EIO"}}

\* Mutant: after a partial transfer the whole chunk length is asked for again.
RangeRequestWhole(first, off, end) == end - first

\* int(end-start): the length asked for, where start is the offset the kernel
\* has advanced to (off) and first is the chunk's first offset.
RangeRequest(first, off, end) == end - off

\* One call of unix.CopyFileRange in the loop.  The kernel advances start, which
\* is both the source and the destination offset, by the bytes it moved.  An
\* EINTR result is retried by the inner loop; any other ends the inner loop and
\* is added to written and taken from remain.
CopyRange(t) ==
  /\ Live(t)
  /\ tasks[t].pc = "loop"
  /\ tasks[t].remain > 0
  /\ \E r \in RangeResults(RangeRequest(tasks[t].start, tasks[t].off, tasks[t].end)) :
       /\ r.odd => faults < MaxFaults
       /\ faults' = IF r.odd THEN faults + 1 ELSE faults
       /\ IF r.err = "EINTR"
          THEN UNCHANGED <<tasks, dst>>
          ELSE /\ tasks' = [tasks EXCEPT
                              ![t].off = IF r.n > 0 THEN @ + r.n ELSE @,
                              ![t].written = @ + r.n,
                              ![t].remain = @ - r.n,
                              ![t].err = (r.err # "nil"),
                              ![t].stored = IF r.n > 0 THEN @ + r.n ELSE @,
                              ![t].parts = IF r.n > 0 THEN @ + 1 ELSE @]
               /\ dst' = [dst EXCEPT !.segs =
                            IF r.n > 0
                            THEN WriteSegs(@, DestOffset(tasks[t].off),
                                           DestOffset(tasks[t].off) + r.n, tasks[t].off)
                            ELSE @]
  /\ UNCHANGED <<mainVars, pc, wg, ret, errKind, exitCode>>

\* After the loop: the last call's error, the short write check, wg.Done().
FinishRange(t) ==
  /\ Live(t)
  /\ tasks[t].pc = "loop"
  /\ ~(tasks[t].remain > 0)
  /\ IF tasks[t].err
     THEN /\ Fatal("copy_file_range")
          /\ tasks' = [tasks EXCEPT ![t].pc = "failed"]
          /\ UNCHANGED wg
     ELSE IF tasks[t].written # tasks[t].end - tasks[t].start
     THEN /\ Fatal("Short write")
          /\ tasks' = [tasks EXCEPT ![t].pc = "failed"]
          /\ UNCHANGED wg
     ELSE /\ tasks' = [tasks EXCEPT ![t].pc = "done"]
          /\ wg' = wg - 1
          /\ UNCHANGED <<pc, exitCode, errKind>>
  /\ UNCHANGED <<mainVars, dst, faults, ret>>

\* Any step of goroutine t.
TaskStep(t) ==
  \/ MapSource(t) \/ MapDest(t) \/ CopyViews(t) \/ SyncView(t)
  \/ UnmapAndReturn(t) \/ CopyRange(t) \/ FinishRange(t)

\* ------------------------------------------------------- the program
Next ==
  \/ Main
  \/ OpenSource
  \/ OpenDestination
  \/ TruncateDestination
  \/ Plan
  \/ Dispatch
  \/ WaitAndClose
  \/ \E t \in Schedulable : MapSource(t)
  \/ \E t \in Schedulable : MapDest(t)
  \/ \E t \in Schedulable : CopyViews(t)
  \/ \E t \in Schedulable : SyncView(t)
  \/ \E t \in Schedulable : UnmapAndReturn(t)
  \/ \E t \in Schedulable : CopyRange(t)
  \/ \E t \in Schedulable : FinishRange(t)

Spec == Init /\ [][Next]_vars

\* ------------------------------------------------------- properties
\* pcopy has started every goroutine of its loop.
DispatchComplete == threads >= 1 /\ i = threads

\* Every task has ended normally after moving its whole range.
AllTasksSucceeded ==
  \A t \in TaskIds :
    tasks[t].pc = "done" /\ tasks[t].written = tasks[t].end - tasks[t].start

\* The ranges handed out so far follow each other from offset 0.
Contiguous ==
  /\ tasks # <<>> => tasks[1].start = 0
  /\ \A t \in TaskIds : tasks[t].start <= tasks[t].end
  /\ \A t \in TaskIds : t > 1 => tasks[t].start = tasks[t - 1].end

\* The ranges handed out cover [0, srcSize).
Covered ==
  srcSize = 0 \/ (tasks # <<>> /\ Contiguous /\ tasks[Len(tasks)].end = srcSize)

\* C1: when pcopy reports success for a source of S > 0 bytes and a worker
\* count of at least 1, the destination has length S and each of its bytes is
\* the source's byte at the same offset, whatever the destination held before
\* and in whatever order the tasks ran.
C1_RoundTrip ==
  (ret = "nil" /\ srcSize > 0 /\ workers0 >= 1)
    => /\ SegsLen(dst.segs) = srcSize
       /\ \A k \in 1..Len(dst.segs) :
            dst.segs[k].kind = "src" /\ dst.segs[k].off = dst.segs[k].lo
       /\ IsCopyOf(dst.segs, srcSize)

C1_Witness ==
  /\ ret = "nil" /\ srcSize > Threshold /\ workers0 = 3 /\ Len(tasks) = 3
  /\ dst0.exists /\ SegsLen(dst0.segs) > srcSize
  /\ IsCopyOf(dst.segs, srcSize)

\* C2: the ranges pcopy hands to its tasks, in dispatch order, start at 0 and
\* each starts where the one before ended, none has a negative length, and once
\* all are handed out the last one ends at the source size.
C2_ChunkPartition ==
  /\ Contiguous
  /\ DispatchComplete => (Len(tasks) = threads /\ Covered)

C2_Witness ==
  /\ DispatchComplete /\ Len(tasks) = 3 /\ version = "part_000"
  /\ srcSize = Threshold + PageSize + 1
  /\ tasks[2].start = 85 * PageSize /\ tasks[3].end = srcSize

\* C3: with an empty source pcopy reports success, starts no task and leaves a
\* destination of length 0, whatever the destination was before.
C3_EmptySource ==
  (srcKind = "regular" /\ srcSize = 0 /\ ret = "nil")
    => (tasks = <<>> /\ SegsLen(dst.segs) = 0)

\* C4: pcopy reports success only when every task moved exactly its range and
\* the ranges of the tasks cover [0, S).
C4_SuccessMeansAllCopied ==
  ret = "nil" => (AllTasksSucceeded /\ Covered)

\* C5: a source that is a directory makes pcopy fail, with the regular file
\* error once the directory could be opened, and leaves the destination as it
\* was: not created, not opened, not truncated, not written, and no task.
C5_NotRegularUntouched ==
  srcKind = "directory"
    => /\ ret # "nil"
       /\ dst = dst0
       /\ dstOpen = "no"
       /\ tasks = <<>>
       /\ (ret = "err" =>
             errKind \in {"open source", "pcp only works on regular files"})

C5_Witness ==
  /\ srcKind = "directory" /\ ret = "err" /\ exitCode = 1
  /\ errKind = "pcp only works on regular files"
  /\ dst0.exists /\ dst = dst0

\* C6: for a source of 0 < S < 256 pages the worker count used is 1 whatever
\* was asked for: one task at most is started, it covers [0, S), and it is
\* started by the time the loop ends.
C6_SmallFileOneWorker ==
  (0 < srcSize /\ srcSize < Threshold)
    => /\ pc = "dispatch" => threads = 1
       /\ Len(tasks) <= 1
       /\ \A t \in TaskIds : tasks[t].start = 0 /\ tasks[t].end = srcSize
       /\ ((pc = "dispatch" /\ ~(i < threads)) \/ ret = "nil") => Len(tasks) = 1

C6_Witness ==
  /\ srcSize = Threshold - 1 /\ workers0 = 3 /\ ret = "nil"
  /\ Len(tasks) = 1 /\ tasks[1].end = srcSize

\* C7 as stated: 1,000,000 bytes with 4 workers are copied as 4 chunks, the
\* first three of 245760 bytes, the fourth up to byte 1,000,000.
C7_ScenarioFourChunks ==
  (srcSize = 1000000 /\ workers0 = 4 /\ ret = "nil")
    => /\ Len(tasks) = 4
       /\ \A t \in 1..3 : tasks[t].end - tasks[t].start = 245760
       /\ tasks[4].end = 1000000
       /\ IsCopyOf(dst.segs, srcSize)

\* C7 amended: 1,000,000 bytes are fewer than 256 pages of 4096 bytes, so with
\* 4 workers asked for they are copied as one chunk [0, 1000000), and the
\* destination equals the source.
C7_ScenarioOneChunk ==
  (srcSize = 1000000 /\ workers0 = 4 /\ ret = "nil")
    => /\ Len(tasks) = 1
       /\ tasks[1].start = 0 /\ tasks[1].end = 1000000
       /\ IsCopyOf(dst.segs, srcSize)

C7_Witness ==
  /\ srcSize = 1000000 /\ workers0 = 4 /\ ret = "nil" /\ PageSize = 4096
  /\ Len(tasks) = 1 /\ tasks[1].pc = "done"

\* C8: with one worker or a base chunk size of 0 the whole file is one chunk:
\* one task, with range [0, S), and never a task with an empty range.
C8_SingleChunkEdge ==
  (pc = "dispatch" /\ (threads = 1 \/ chunk = 0))
    => /\ Len(tasks) <= 1
       /\ \A t \in TaskIds :
            tasks[t].start < tasks[t].end
            /\ tasks[t].start = 0 /\ tasks[t].end = srcSize

\* C9: every chunk starts at a multiple of the page size; every chunk but the
\* last ends at one, and the last ends at the source size.
C9_PageAligned ==
  \A t \in TaskIds :
    /\ tasks[t].start % PageSize = 0
    /\ IF t = threads THEN tasks[t].end = srcSize
       ELSE tasks[t].end % PageSize = 0

C9_Witness ==
  /\ DispatchComplete /\ Len(tasks) = 3
  /\ srcSize = Threshold + PageSize + 1
  /\ tasks[3].end % PageSize # 0

\* C10: after a successful pcopy the destination has the source's permission
\* bits, whether it was created or existed before with other bits.
C10_PermissionsMatch ==
  ret = "nil" => dst.mode = srcMode

\* A task has reported an error.
TaskFailed == \E t \in TaskIds : tasks[t].pc = "failed"

\* Task t has started and neither returned nor failed.
InFlight(t) == t \in TaskIds /\ tasks[t].pc \notin {"done", "failed"}

AskedPositive == tInput.kind = "int" /\ tInput.val > 0

\* C13: the worker count pcopy is called with is a positive integer: the
\* caller's value when that is a positive integer, and the number of CPU
\* threads for every other input.
C13_WorkersPositive ==
  pc \in {"open_src", "open_dst", "truncate", "plan", "dispatch"}
    => /\ workers0 >= 1
       /\ threads >= 1
       /\ IF AskedPositive THEN workers0 = tInput.val
          ELSE workers0 \in 1..MaxCPU

\* C14 (join barrier): the WaitGroup counts the tasks that have not returned,
\* and the destination handle is closed and pcopy has returned only when every
\* task it started has returned: none is mapping, copying or syncing then.
C14_JoinBarrier ==
  /\ Running => wg = Cardinality({t \in TaskIds : tasks[t].pc # "done"})
  /\ (dstOpen = "closed" \/ ret # "none")
       => (wg = 0 /\ \A t \in TaskIds : tasks[t].pc = "done")

C14_Witness ==
  /\ ret = "nil" /\ dstOpen = "closed" /\ Len(tasks) = 3 /\ wg = 0
  /\ \A t \in TaskIds : tasks[t].pc = "done" /\ tasks[t].s = "released"

\* The tasks that have stored bytes in the destination, and the range of
\* destination offsets each has stored to so far.
Writers == {t \in TaskIds : tasks[t].stored > 0}
WrittenLo(t) == DestOffset(tasks[t].start)
WrittenHi(t) == DestOffset(tasks[t].start) + tasks[t].stored

\* C15: the destination ranges written by two distinct tasks are disjoint, and
\* each task writes inside the range it was given.
C15_DisjointWrites ==
  /\ \A t \in Writers :
       tasks[t].start <= WrittenLo(t) /\ WrittenHi(t) <= tasks[t].end
  /\ \A t, u \in Writers :
       t # u => (WrittenHi(t) <= WrittenLo(u) \/ WrittenHi(u) <= WrittenLo(t))

C15_Witness ==
  /\ Cardinality(Writers) = 3 /\ version = "part_001"
  /\ \E t \in Writers : tasks[t].pc = "copy" \/ tasks[t].pc = "unmap"
  /\ \E t \in Writers : tasks[t].pc = "done"

\* C16: when a memory-mapped task has ended, by returning or by an error,
\* neither of its views is still mapped.
C16_ViewsReleased ==
  \A t \in TaskIds :
    tasks[t].pc \in {"done", "failed"}
      => (tasks[t].s # "mapped" /\ tasks[t].d # "mapped")

\* C17: in fcopy only EINTR is retried: once a call of the range copy has
\* returned another error the copy loop is over, so no further call follows
\* it and the task goes on to report the error.
C17_ErrorEndsLoop ==
  \A t \in TaskIds :
    (tasks[t].pc = "loop" /\ tasks[t].err) => ~(tasks[t].remain > 0)

\* The destination holds the source's bytes at offsets [lo, hi).
HoldsSource(lo, hi) ==
  \E k \in 1..Len(dst.segs) :
    /\ dst.segs[k].kind = "src" /\ dst.segs[k].off = dst.segs[k].lo
    /\ dst.segs[k].lo <= lo /\ hi <= dst.segs[k].hi

\* C18: in fcopy, after the transfers so far the next call starts at the first
\* offset not yet moved, in source and destination alike, and asks for the
\* bytes still missing; the bytes moved are in the destination at their source
\* offsets; and a task that has returned has moved exactly end - start bytes.
C18_ResumeWhereStopped ==
  version = "part_000" =>
    \A t \in TaskIds :
      /\ tasks[t].off = tasks[t].start + tasks[t].stored
      /\ tasks[t].stored <= tasks[t].end - tasks[t].start
      /\ RangeRequest(tasks[t].start, tasks[t].off, tasks[t].end)
           = (tasks[t].end - tasks[t].start) - tasks[t].stored
      /\ tasks[t].stored > 0
           => HoldsSource(tasks[t].start, tasks[t].start + tasks[t].stored)
      /\ tasks[t].pc = "done"
           => /\ tasks[t].stored = tasks[t].end - tasks[t].start
              /\ tasks[t].written = tasks[t].stored
              /\ tasks[t].off = tasks[t].end

C18_Witness ==
  /\ version = "part_000" /\ ret = "nil" /\ Len(tasks) = 2
  /\ tasks[1].pc = "done" /\ tasks[1].parts = 2
  /\ tasks[1].stored = tasks[1].end - tasks[1].start
  /\ tasks[1].stored > PageSize

\* C19: with syncing on, a task syncs its destination view after it has copied
\* all of its range and before it unmaps the view and signals completion, so
\* pcopy reports success only when every task has synced; a failed sync ends
\* the run with status 1 and never with success.
C19_SyncBeforeDone ==
  /\ \A t \in TaskIds :
       /\ tasks[t].synced
            => (fsync /\ tasks[t].stored = tasks[t].end - tasks[t].start)
       /\ (fsync /\ tasks[t].pc \in {"unmap", "done"}) => tasks[t].synced
  /\ (fsync /\ ret = "nil") => \A t \in TaskIds : tasks[t].synced
  /\ errKind = "msync" => (ret = "none" /\ exitCode = 1)

C19_Witness ==
  /\ fsync /\ ret = "nil" /\ Len(tasks) = 3 /\ version = "pcp.go"
  /\ \A t \in TaskIds : tasks[t].synced /\ tasks[t].pc = "done"

\* C20: the run configuration is not changed by a run: once pcopy has
\* returned, the configured worker count is the one it had when pcopy was
\* called, whatever the size of the file that was copied.
C20_ConfigUnchanged ==
  ret # "none" => threads = workers0

====
